---------------------------- MODULE Spec2Model ----------------------------
(***************************************************************************)
(* Model of helper.py: the function process_data and the script body       *)
(* guarded by  if __name__ == "__main__".                                  *)
(*                                                                         *)
(* A text is a sequence of Unicode code points (natural numbers), so that  *)
(* str.upper() can be modelled character by character, including the one   *)
(* Latin-1 character whose uppercase form is two characters long.          *)
(* A run is one execution of the script as a program.  The state maps each *)
(* run to its sys.argv, its position in the script, the local `result`,    *)
(* what it has written to sys.stdout, its exit status, and the standard    *)
(* output it was started with: the encoding of sys.stdout, whether         *)
(* sys.stdout is buffered, and whether the file behind it takes writes.    *)
(***************************************************************************)
EXTENDS Naturals, Integers, Sequences, FiniteSets

VARIABLES argv, env, pc, result, stdout, exit, calls

vars == <<argv, env, pc, result, stdout, exit, calls>>

-----------------------------------------------------------------------------
(* Bounds of the model *)

\* longest first positional argument drawn over Alphabet
MaxLen == 2
\* largest number of positional arguments after the first
MaxExtra == 1

-----------------------------------------------------------------------------
(* Texts *)

\* "\n", appended by print()
Newline == 10

\* "Processed: "
Prefix == <<80, 114, 111, 99, 101, 115, 115, 101, 100, 58, 32>>

\* "Usage: python helper.py <input_text>"
Usage == <<85, 115, 97, 103, 101, 58, 32, 112, 121, 116, 104, 111, 110, 32,
           104, 101, 108, 112, 101, 114, 46, 112, 121, 32, 60, 105, 110, 112,
           117, 116, 95, 116, 101, 120, 116, 62>>

\* sys.argv[0]: "helper.py"
ScriptName == <<104, 101, 108, 112, 101, 114, 46, 112, 121>>

\* "a", "A", "1", U+00DF (sharp s), U+00B5 (micro sign) and "\n": a
\* lowercase letter, an uppercase letter, a digit, a lowercase letter whose
\* uppercase form is the two characters "SS", a lowercase letter whose
\* uppercase form U+039C lies outside Latin-1, and an uncased control
\* character.
Alphabet == {97, 65, 49, 223, 181, Newline}

\* "abc", "MiXeD123", "hello"
Str_abc == <<97, 98, 99>>
Str_MiXeD123 == <<77, 105, 88, 101, 68, 49, 50, 51>>
Str_hello == <<104, 101, 108, 108, 111>>
Examples == {Str_abc, Str_MiXeD123, Str_hello}

\* the values of the first positional argument
Texts == (UNION {[1..n -> Alphabet] : n \in 0..MaxLen}) \cup Examples

\* the values of the further positional arguments: "", "a", U+00DF
ExtraTexts == {<<>>, <<97>>, <<223>>}

\* the further positional arguments of a run
Extras == UNION {[1..n -> ExtraTexts] : n \in 0..MaxExtra}

\* the values of sys.argv: the script name, then the positional arguments
Argvs == {<<ScriptName>>} \cup
         {<<ScriptName, t>> \o rest : t \in Texts, rest \in Extras}

\* the encodings of sys.stdout
Encodings == {"utf-8", "latin-1"}

\* the file behind sys.stdout takes what is written ("ok") or fails every
\* write ("full": a full device, a pipe whose reader is gone)
Sinks == {"ok", "full"}

\* the standard output of a run; sys.stdout is block buffered on a file
\* or a pipe and writes through under python -u.  The run is started with
\* an open file descriptor 1, so that sys.stdout is a stream.
Envs == [encoding : Encodings, buffered : BOOLEAN, sink : Sinks]

\* the value of `result` before line 14 assigns it
Unset == <<0 - 1>>

\* the exit status of a run that has not exited
Running == 0 - 1

-----------------------------------------------------------------------------
(* str.upper(), for the code points of Latin-1 (U+0000..U+00FF) *)

\* str.swapcase() taken for str.upper(): capitals become lowercase letters
toupper_swapcase(c) ==
    IF c \in 97..122 THEN <<c - 32>>
    ELSE IF c \in 65..90 THEN <<c + 32>>
    ELSE <<c>>

\* the uppercase form of one character, a text of one or two characters
toupper(c) ==
    IF c \in 97..122 THEN <<c - 32>>              \* a-z
    ELSE IF c = 181 THEN <<924>>                  \* micro sign -> GREEK MU
    ELSE IF c = 223 THEN <<83, 83>>               \* sharp s -> "SS"
    ELSE IF c \in 224..254 /\ c # 247 THEN <<c - 32>>
    ELSE IF c = 255 THEN <<376>>                  \* y diaeresis
    ELSE <<c>>

RECURSIVE upper(_)
upper(s) == IF s = <<>> THEN <<>> ELSE toupper(Head(s)) \o upper(Tail(s))

\* process_data with the call of upper() forgotten
process_data_noupper(input_text) == Prefix \o input_text

\* process_data with the prefix forgotten
process_data_bare(input_text) == upper(input_text)

\* def process_data(input_text): return f"Processed: {input_text.upper()}"
process_data(input_text) == Prefix \o upper(input_text)

\* the encoding enc has a byte sequence for every character of x (the
\* texts of the model hold no surrogate, so utf-8 encodes them all)
CanEncode(enc, x) ==
    \/ enc = "utf-8"
    \/ enc = "latin-1" /\ \A i \in 1..Len(x) : x[i] <= 255

\* print(x) raises on the standard output e: UnicodeEncodeError when x
\* cannot be encoded, else OSError when sys.stdout writes through to a
\* file that fails the write; a buffered sys.stdout keeps the text
Raises(e, x) ==
    \/ ~CanEncode(e.encoding, x)
    \/ ~e.buffered /\ e.sink # "ok"

\* print(x, end="")
WriteLine_noend(out, x) == out \o x

\* print(x) on a standard output that already holds `out`
WriteLine(out, x) == out \o x \o <<Newline>>

-----------------------------------------------------------------------------
(* The script *)

Runs == DOMAIN pc

\* line 13 written as  if len(sys.argv) > 0
Guard_offbyone(r) ==
    /\ pc[r] = "guard"
    /\ pc' = [pc EXCEPT ![r] = IF Len(argv[r]) > 0 THEN "call" ELSE "usage"]
    /\ UNCHANGED <<argv, env, result, stdout, exit, calls>>

\* line 13 written as  if len(sys.argv) > 1 and sys.argv[1]
Guard_truthy(r) ==
    /\ pc[r] = "guard"
    /\ pc' = [pc EXCEPT ![r] = IF Len(argv[r]) > 1 /\ argv[r][2] # <<>>
                               THEN "call" ELSE "usage"]
    /\ UNCHANGED <<argv, env, result, stdout, exit, calls>>

\* line 13 written as  if len(sys.argv) == 2
Guard_exactlyone(r) ==
    /\ pc[r] = "guard"
    /\ pc' = [pc EXCEPT ![r] = IF Len(argv[r]) = 2 THEN "call" ELSE "usage"]
    /\ UNCHANGED <<argv, env, result, stdout, exit, calls>>

\* line 13: if len(sys.argv) > 1
Guard(r) ==
    /\ pc[r] = "guard"
    /\ pc' = [pc EXCEPT ![r] = IF Len(argv[r]) > 1 THEN "call" ELSE "usage"]
    /\ UNCHANGED <<argv, env, result, stdout, exit, calls>>

\* line 14 with a process_data that also prints what it returns
CallProcessData_printing(r) ==
    /\ pc[r] = "call"
    /\ Len(argv[r]) >= 2
    /\ result' = [result EXCEPT ![r] = process_data(argv[r][2])]
    /\ stdout' = [stdout EXCEPT ![r] = WriteLine(@, process_data(argv[r][2]))]
    /\ calls' = [calls EXCEPT ![r] = @ + 1]
    /\ pc' = [pc EXCEPT ![r] = "print"]
    /\ UNCHANGED <<argv, env, exit>>

\* line 14: result = process_data(sys.argv[1]); sys.argv[1] raises
\* IndexError, which ends the run with status 1, when there is no such item
CallProcessData(r) ==
    /\ pc[r] = "call"
    /\ IF Len(argv[r]) >= 2
       THEN /\ result' = [result EXCEPT ![r] = process_data(argv[r][2])]
            /\ calls' = [calls EXCEPT ![r] = @ + 1]
            /\ pc' = [pc EXCEPT ![r] = "print"]
            /\ UNCHANGED exit
       ELSE /\ pc' = [pc EXCEPT ![r] = "failed"]
            /\ exit' = [exit EXCEPT ![r] = 1]
            /\ UNCHANGED <<result, calls>>
    /\ UNCHANGED <<argv, env, stdout>>

\* line 15 with the else of line 16 lost: line 17 runs after it
PrintResult_fallthrough(r) ==
    /\ pc[r] = "print"
    /\ IF ~Raises(env[r], result[r])
       THEN /\ stdout' = [stdout EXCEPT ![r] = WriteLine(@, result[r])]
            /\ pc' = [pc EXCEPT ![r] = "usage"]
            /\ UNCHANGED exit
       ELSE /\ pc' = [pc EXCEPT ![r] = "failed"]
            /\ exit' = [exit EXCEPT ![r] = 1]
            /\ UNCHANGED stdout
    /\ UNCHANGED <<argv, env, result, calls>>

\* line 15: print(result); an exception of print ends the run with a
\* traceback and status 1, and nothing of the text is written
PrintResult(r) ==
    /\ pc[r] = "print"
    /\ IF ~Raises(env[r], result[r])
       THEN /\ stdout' = [stdout EXCEPT ![r] = WriteLine(@, result[r])]
            /\ pc' = [pc EXCEPT ![r] = "exit"]
            /\ UNCHANGED exit
       ELSE /\ pc' = [pc EXCEPT ![r] = "failed"]
            /\ exit' = [exit EXCEPT ![r] = 1]
            /\ UNCHANGED stdout
    /\ UNCHANGED <<argv, env, result, calls>>

\* line 17 followed by sys.exit(1)
PrintUsage_exit1(r) ==
    /\ pc[r] = "usage"
    /\ IF ~Raises(env[r], Usage)
       THEN /\ stdout' = [stdout EXCEPT ![r] = WriteLine(@, Usage)]
            /\ pc' = [pc EXCEPT ![r] = "done"]
            /\ exit' = [exit EXCEPT ![r] = 1]
       ELSE /\ pc' = [pc EXCEPT ![r] = "failed"]
            /\ exit' = [exit EXCEPT ![r] = 1]
            /\ UNCHANGED stdout
    /\ UNCHANGED <<argv, env, result, calls>>

\* line 17: print("Usage: python helper.py <input_text>"); an exception
\* of print ends the run with a traceback and status 1
PrintUsage(r) ==
    /\ pc[r] = "usage"
    /\ IF ~Raises(env[r], Usage)
       THEN /\ stdout' = [stdout EXCEPT ![r] = WriteLine(@, Usage)]
            /\ pc' = [pc EXCEPT ![r] = "exit"]
            /\ UNCHANGED exit
       ELSE /\ pc' = [pc EXCEPT ![r] = "failed"]
            /\ exit' = [exit EXCEPT ![r] = 1]
            /\ UNCHANGED stdout
    /\ UNCHANGED <<argv, env, result, calls>>

\* the script falls off its end: the interpreter flushes sys.stdout and
\* exits with status 0, or with status 120 when the flush of the buffered
\* text fails
Exit(r) ==
    /\ pc[r] = "exit"
    /\ pc' = [pc EXCEPT ![r] = "done"]
    /\ exit' = [exit EXCEPT ![r] =
                   IF env[r].buffered /\ env[r].sink # "ok" THEN 120 ELSE 0]
    /\ UNCHANGED <<argv, env, result, stdout, calls>>

\* the state of runs started with the argument vectors a, each on the
\* standard output e
Start(a, e) ==
    /\ argv = a
    /\ env = [r \in DOMAIN a |-> e]
    /\ pc = [r \in DOMAIN a |-> "guard"]
    /\ result = [r \in DOMAIN a |-> Unset]
    /\ stdout = [r \in DOMAIN a |-> <<>>]
    /\ exit = [r \in DOMAIN a |-> Running]
    /\ calls = [r \in DOMAIN a |-> 0]

\* one run, with any argument vector and any standard output
Init == \E a \in Argvs, e \in Envs : Start(<<a>>, e)

Next ==
    \E r \in Runs :
        \/ Guard(r)
        \/ CallProcessData(r)
        \/ PrintResult(r)
        \/ PrintUsage(r)
        \/ Exit(r)

Spec == Init /\ [][Next]_vars

\* a run is a sequential program: it takes its next step while it has one
FairSpec == Spec /\ WF_vars(Next)

\* two runs on the same standard output whose first positional argument
\* is the same
InitPair ==
    \E a \in Argvs, b \in Argvs, e \in Envs :
        /\ Len(a) > 1
        /\ Len(b) > 1
        /\ a[2] = b[2]
        /\ Start(<<a, b>>, e)

SpecPair == InitPair /\ [][Next]_vars

-----------------------------------------------------------------------------
(* Properties *)

\* "Processed: ABC", "Processed: MIXED123", "Processed: HELLO"
Str_Processed_ABC ==
    <<80, 114, 111, 99, 101, 115, 115, 101, 100, 58, 32, 65, 66, 67>>
Str_Processed_MIXED123 ==
    <<80, 114, 111, 99, 101, 115, 115, 101, 100, 58, 32,
      77, 73, 88, 69, 68, 49, 50, 51>>
Str_Processed_HELLO ==
    <<80, 114, 111, 99, 101, 115, 115, 101, 100, 58, 32, 72, 69, 76, 76, 79>>

\* the run has at least one positional argument
HasArg(r) == Len(argv[r]) > 1

\* the run has returned from process_data
Called(r) == calls[r] > 0

\* the run has passed its print statement
Printed(r) == pc[r] \in {"exit", "done"}

\* s begins with p
StartsWith(s, p) == Len(s) >= Len(p) /\ SubSeq(s, 1, Len(p)) = p

\* the number of line terminators in s
NumLines(s) == Cardinality({i \in 1..Len(s) : s[i] = Newline})

\* the characters of s whose uppercase form is longer than one character
Expanding(s) == {i \in 1..Len(s) : s[i] = 223}

\* C1: process_data(s) is "Processed: " followed by upper(s): the result
\* begins with the literal prefix, what follows is the uppercased argument
\* (character by character when no character expands: a lowercase letter
\* becomes its capital, every other character is kept), and the examples
\* "abc" and "MiXeD123" give "Processed: ABC" and "Processed: MIXED123".
C1_Transform ==
    \A r \in Runs : Called(r) =>
        LET s == argv[r][2]
            out == result[r]
        IN  /\ out = Prefix \o upper(s)
            /\ StartsWith(out, Prefix)
            /\ Len(out) = Len(Prefix) + Len(s) + Cardinality(Expanding(s))
            /\ Expanding(s) = {} =>
                 \A i \in 1..Len(s) :
                     out[Len(Prefix) + i] =
                         IF s[i] \in 97..122 THEN s[i] - 32
                         ELSE IF s[i] = 181 THEN 924
                         ELSE s[i]
            /\ s = <<>> => out = Prefix
            /\ s = Str_abc => out = Str_Processed_ABC
            /\ s = Str_MiXeD123 => out = Str_Processed_MIXED123

C1_Witness ==
    \E r \in Runs :
        /\ Called(r)
        /\ argv[r][2] = Str_MiXeD123
        /\ result[r] = Str_Processed_MIXED123

\* C2: a run with at least one positional argument writes process_data of
\* the first positional argument, followed by a newline, and nothing else;
\* the argument "hello" prints "Processed: HELLO".
C2_PrintsResult ==
    \A r \in Runs : HasArg(r) /\ Printed(r) =>
        /\ stdout[r] = process_data(argv[r][2]) \o <<Newline>>
        /\ stdout[r] = result[r] \o <<Newline>>
        /\ argv[r][2] = Str_hello =>
               stdout[r] = Str_Processed_HELLO \o <<Newline>>

C2_Witness ==
    \E r \in Runs :
        /\ pc[r] = "done"
        /\ HasArg(r)
        /\ argv[r][2] = Str_hello
        /\ stdout[r] = Str_Processed_HELLO \o <<Newline>>

\* C3: a run with no positional argument never calls process_data and
\* writes the usage message.
C3_UsageNoCall ==
    \A r \in Runs : ~HasArg(r) =>
        /\ calls[r] = 0
        /\ result[r] = Unset
        /\ pc[r] \notin {"call", "print"}
        /\ Printed(r) => stdout[r] = Usage \o <<Newline>>
        /\ ~Printed(r) => stdout[r] = <<>>

C3_Witness ==
    \E r \in Runs :
        /\ ~HasArg(r)
        /\ pc[r] = "done"
        /\ calls[r] = 0
        /\ stdout[r] = Usage \o <<Newline>>

\* the run has ended, at the end of the script or with an exception
Ended(r) == pc[r] \in {"done", "failed"}

\* the text the run hands to print
Line(r) == IF HasArg(r) THEN Prefix \o upper(argv[r][2]) ELSE Usage

\* the exit status that the standard output of the run allows
StatusOn(r) ==
    IF ~CanEncode(env[r].encoding, Line(r)) THEN 1
    ELSE IF env[r].sink = "ok" THEN 0
    ELSE IF env[r].buffered THEN 120
    ELSE 1

\* C4 as stated: no run has an exit status other than 0, whatever its
\* arguments: a run that has ended has ended with status 0.
C4_ExitsWithSuccess ==
    \A r \in Runs :
        /\ exit[r] \in {Running, 0}
        /\ Ended(r) => exit[r] = 0

\* C4 as amended: every run ends, whatever the number and the values of
\* its arguments.  It ends with status 0 when its standard output can
\* encode the printed line and takes the write; it ends with status 1 when
\* print raises (the line cannot be encoded, or an unbuffered standard
\* output fails the write) and with status 120 when the flush of a buffered
\* standard output fails at exit.  The arguments alone never make a run
\* fail: on a utf-8 standard output that takes the write every run ends
\* with status 0, and no run fails before its print statement.
C4_ExitStatus ==
    /\ [](\A r \in Runs :
            /\ exit[r] \in {Running, 0, 1, 120}
            /\ Ended(r) <=> exit[r] # Running
            /\ Ended(r) => exit[r] = StatusOn(r)
            /\ Ended(r) /\ env[r].encoding = "utf-8" /\ env[r].sink = "ok"
                  => pc[r] = "done" /\ exit[r] = 0
            /\ pc[r] = "failed" => IF HasArg(r) THEN Called(r)
                                                 ELSE calls[r] = 0)
    /\ <>[](\A r \in Runs : Ended(r))

C4_Witness ==
    \E r \in Runs :
        /\ pc[r] = "failed"
        /\ exit[r] = 1
        /\ HasArg(r)
        /\ env[r].encoding = "latin-1"
        /\ env[r].sink = "ok"
        /\ argv[r][2] = <<181>>

\* C5: the call of process_data changes only the caller's `result` (and
\* the caller's position): it writes nothing and changes no other state;
\* standard output changes only in the steps of the two print statements.
C5_Pure ==
    [][\A r \in Runs :
          /\ calls'[r] # calls[r] =>
                /\ stdout' = stdout
                /\ argv' = argv
                /\ exit' = exit
                /\ \A q \in Runs \ {r} : result'[q] = result[q]
                /\ result'[r] = process_data(argv[r][2])
          /\ stdout'[r] # stdout[r] => pc[r] \in {"print", "usage"}]_vars

C5_Witness ==
    \E r \in Runs :
        /\ pc[r] = "print"
        /\ calls[r] = 1
        /\ result[r] # Unset
        /\ stdout[r] = <<>>

\* C6: an empty first positional argument is an argument: the run takes
\* the transform branch, process_data("") is "Processed: ", and the run
\* prints "Processed: " and not the usage message.
C6_EmptyAccepted ==
    \A r \in Runs : HasArg(r) /\ argv[r][2] = <<>> =>
        /\ pc[r] # "usage"
        /\ pc[r] # "guard" => Called(r) \/ pc[r] = "call"
        /\ Called(r) => result[r] = Prefix
        /\ Printed(r) => /\ stdout[r] = Prefix \o <<Newline>>
                         /\ stdout[r] # Usage \o <<Newline>>

C6_Witness ==
    \E r \in Runs :
        /\ argv[r] = <<ScriptName, <<>>>>
        /\ pc[r] = "done"
        /\ stdout[r] = Prefix \o <<Newline>>

\* C7: two runs with the same first positional argument write the same
\* output, whatever the number and values of their further arguments.
C7_OnlyFirstArgument ==
    \A r \in Runs : \A q \in Runs :
        /\ HasArg(r) /\ HasArg(q) /\ argv[r][2] = argv[q][2]
        /\ Printed(r) /\ Printed(q)
        => stdout[r] = stdout[q]

C7_Witness ==
    \E r \in Runs : \E q \in Runs :
        /\ HasArg(r) /\ HasArg(q)
        /\ argv[r][2] = argv[q][2]
        /\ Len(argv[r]) # Len(argv[q])
        /\ pc[r] = "done" /\ pc[q] = "done"
        /\ stdout[r] = stdout[q]
        /\ stdout[r] # <<>>

C9_CaseInsensitive ==
    \A r \in Runs : Called(r) =>
        LET s == argv[r][2]
        IN  /\ result[r] = process_data(upper(s))
            /\ \A t \in Texts :
                   upper(t) = upper(s) => process_data(t) = result[r]

C9_Witness ==
    \E r \in Runs :
        /\ Called(r)
        /\ argv[r][2] = <<97, 65>>
        /\ upper(<<65, 97>>) = upper(argv[r][2])
        /\ result[r] = Prefix \o <<65, 65>>

\* C10: the line of the transform branch begins with "Processed: " and is
\* never the usage message; the output of a run without arguments does not
\* begin with "Processed: ": the output tells whether an argument was given.
C10_Distinguishable ==
    \A r \in Runs : Printed(r) =>
        /\ HasArg(r) => /\ StartsWith(stdout[r], Prefix)
                        /\ stdout[r] # Usage \o <<Newline>>
        /\ ~HasArg(r) => ~StartsWith(stdout[r], Prefix)
        /\ stdout[r] = Usage \o <<Newline>> <=> ~HasArg(r)

C10_Witness ==
    \E r \in Runs :
        /\ pc[r] = "done"
        /\ HasArg(r)
        /\ StartsWith(stdout[r], Prefix)
        /\ stdout[r] # Usage \o <<Newline>>

=============================================================================
